---- MODULE Spec2Model ----
(***************************************************************************)
(* rusttext: the vocabulary hash table (vocabulary.rs) and its token model *)
(* (word.rs).  Strings are sequences of bytes (0..255); a u32 is a pair    *)
(* <<high 16 bits, low 16 bits>> so that 32-bit wrap-around is computed    *)
(* exactly.                                                                *)
(***************************************************************************)
EXTENDS Integers, Sequences, FiniteSets, TLC

(***************************************************************************)
(* Bounds of the exploration.                                              *)
(***************************************************************************)
\* at most this many calls of add in one behaviour
MaxAdds == 4
\* thresholds handed to threshold() range over 0..MaxThreshold
MaxThreshold == 3

(***************************************************************************)
(* Inputs: the tokens handed to add / get_id, as UTF-8 byte strings.       *)
(***************************************************************************)
\* "foo"
T_foo == <<102, 111, 111>>
\* "bar"
T_bar == <<98, 97, 114>>
\* "biff"
T_biff == <<98, 105, 102, 102>>
\* "rust"
T_rust == <<114, 117, 115, 116>>
\* "__label__baz"
T_label_baz == <<95, 95, 108, 97, 98, 101, 108, 95, 95, 98, 97, 122>>
\* "__label__a"
T_label_a == <<95, 95, 108, 97, 98, 101, 108, 95, 95, 97>>
\* "a" followed by U+00E9 (two bytes: 195, 169)
T_a_eacute == <<97, 195, 169>>

Tokens == {T_foo, T_bar, T_label_baz, T_label_a, T_a_eacute}

\* Vocabulary::new(vocab_size, min_n, max_n, bucket): the argument tuples tried.
\* vocab_size and bucket are divisors (vocabulary.rs:36, word.rs:61) and are
\* taken positive.  <<5, 2, 4, 10>> is the configuration of the unit tests.
Configs == { <<5, 2, 4, 10>>, <<3, 0, 0, 10>>, <<5, 3, 2, 10>> }

(***************************************************************************)
(* u32 arithmetic on <<hi, lo>> pairs.                                     *)
(***************************************************************************)
RECURSIVE xor_bits(_, _, _)
\* bitwise exclusive or of the n low bits of a and b
xor_bits(a, b, n) ==
    IF n = 0 THEN 0
    ELSE (((a % 2) + (b % 2)) % 2) + 2 * xor_bits(a \div 2, b \div 2, n - 1)

\* h ^ u32::from(char): a byte touches the low 8 bits only
u32_xor_byte(h, char) ==
    <<h[1], ((h[2] \div 256) * 256) + xor_bits(h[2] % 256, char, 8)>>

\* the FNV prime 16777619 = 0x0100_0193 as <<hi, lo>>
fnv_prime == <<256, 403>>

\* the FNV offset basis 2166136261 = 0x811C_9DC5 as <<hi, lo>>
fnv_offset_basis == <<33052, 40389>>

\* h.wrapping_mul(p): the product modulo 2^32
wrapping_mul(h, p) ==
    LET low == h[2] * p[2]
    IN  << ((low \div 65536) + (h[2] * p[1]) + (h[1] * p[2])) % 65536, low % 65536 >>

\* h % n for a u32 h and a small positive n
u32_mod(h, n) == (((h[1] % n) * (65536 % n)) + (h[2] % n)) % n

\* fnv_fold in the FNV-1 order: multiply first, then xor
RECURSIVE fnv_fold_fnv1(_, _, _)
fnv_fold_fnv1(word, i, h) ==
    IF i > Len(word) THEN h
    ELSE fnv_fold_fnv1(word, i + 1, u32_xor_byte(wrapping_mul(h, fnv_prime), word[i]))

RECURSIVE fnv_fold(_, _, _)
fnv_fold(word, i, h) ==
    IF i > Len(word) THEN h
    ELSE fnv_fold(word, i + 1, wrapping_mul(u32_xor_byte(h, word[i]), fnv_prime))

\* word.rs fnv_hash
fnv_hash(word) == fnv_fold(word, 1, fnv_offset_basis)

(***************************************************************************)
(* word.rs: entry type, construction, subwords, comparator.                *)
(***************************************************************************)
label_prefix == <<95, 95, 108, 97, 98, 101, 108, 95, 95>>

\* str::starts_with
starts_with(word, prefix) ==
    /\ Len(word) >= Len(prefix)
    /\ SubSeq(word, 1, Len(prefix)) = prefix

\* get_type testing for equality with the prefix instead of starts_with
get_type_exact(word, prefix) ==
    IF word = prefix THEN "Label" ELSE "Word"

\* word.rs get_type
get_type(word, prefix) ==
    IF starts_with(word, prefix) THEN "Label" ELSE "Word"

\* WordEntry::new starting the entry at count 2, as if an occurrence seen
\* before were still counted
WordEntry_new_recounted(word, prefix) ==
    [word |-> word, count |-> 2, entry_type |-> get_type(word, prefix),
     subwords |-> <<>>]

\* WordEntry::new
WordEntry_new(word, prefix) ==
    [word |-> word, count |-> 1, entry_type |-> get_type(word, prefix),
     subwords |-> <<>>]

\* (letter & 0xC0) == 0x80
is_continuation(letter) == (letter - (letter % 64)) = 128

\* str::is_char_boundary(k) for a 0-based byte offset k
is_char_boundary(word, k) ==
    \/ k = 0
    \/ k = Len(word)
    \/ (k < Len(word) /\ ~is_continuation(word[k + 1]))

\* the pairs <<width, i>> in the order the two loops visit them, i 0-based
RECURSIVE windows(_, _, _, _)
windows(word, width, max_n, i) ==
    IF width > max_n THEN <<>>
    ELSE IF i >= Len(word) THEN windows(word, width + 1, max_n, 0)
    ELSE IF is_continuation(word[i + 1]) THEN windows(word, width, max_n, i + 1)
    ELSE IF i + width <= Len(word)
         THEN <<(<<width, i>>)>> \o windows(word, width, max_n, i + 1)
         ELSE windows(word, width, max_n, i + 1)

\* what a call of parse_subwords / compute_subwords comes to: the list it
\* returns, or the panic that ends it and the panic's cause
Returned(subwords) == [panic |-> FALSE, subwords |-> subwords, cause |-> "none"]

Panicked(cause) == [panic |-> TRUE, subwords |-> <<>>, cause |-> cause]

\* parse_subwords with the parameter test taken strictly (min_n > max_n)
parse_subwords_strict(word, min_n, max_n) ==
    IF (min_n = 0) \/ (max_n = 0) THEN Returned(<<>>)
    ELSE IF min_n > max_n THEN Panicked("invalid subword parameters")
    ELSE LET ws == windows(word, min_n, max_n, 0)
         IN  IF \E k \in 1..Len(ws) : ~is_char_boundary(word, ws[k][2] + ws[k][1])
             THEN Panicked("not a char boundary")
             ELSE Returned([k \in 1..Len(ws) |->
                       SubSeq(word, ws[k][2] + 1, ws[k][2] + ws[k][1])])

\* WordEntry::parse_subwords.  &self.word[i..ceil] panics when ceil is not a
\* char boundary (i always is one).
parse_subwords(word, min_n, max_n) ==
    IF (min_n = 0) \/ (max_n = 0) THEN Returned(<<>>)
    ELSE IF min_n >= max_n THEN Panicked("invalid subword parameters")
    ELSE LET ws == windows(word, min_n, max_n, 0)
         IN  IF \E k \in 1..Len(ws) : ~is_char_boundary(word, ws[k][2] + ws[k][1])
             THEN Panicked("not a char boundary")
             ELSE Returned([k \in 1..Len(ws) |->
                       SubSeq(word, ws[k][2] + 1, ws[k][2] + ws[k][1])])

\* WordEntry::compute_subwords: the hashed buckets of the parsed subwords
compute_subwords(word, min_n, max_n, bucket) ==
    LET p == parse_subwords(word, min_n, max_n)
    IN  IF p.panic THEN p
        ELSE Returned([k \in 1..Len(p.subwords) |->
                          u32_mod(fnv_hash(p.subwords[k]), bucket)])

\* derive(Ord) on EntryType: Word < Label
type_rank(t) == IF t = "Word" THEN 0 ELSE 1

cmp_nat(a, b) == IF a < b THEN "Less" ELSE IF a > b THEN "Greater" ELSE "Equal"

\* compare with the counts the other way round: ascending within a type
compare_ascending(left, right) ==
    IF left.entry_type = right.entry_type
    THEN cmp_nat(left.count, right.count)
    ELSE cmp_nat(type_rank(left.entry_type), type_rank(right.entry_type))

\* word.rs compare
compare(left, right) ==
    IF left.entry_type = right.entry_type
    THEN cmp_nat(right.count, left.count)
    ELSE cmp_nat(type_rank(left.entry_type), type_rank(right.entry_type))

\* insert_sorted that is not stable: x goes before the elements Equal to it
RECURSIVE insert_sorted_unstable(_, _)
insert_sorted_unstable(s, x) ==
    IF s = <<>> THEN <<x>>
    ELSE IF compare(s[Len(s)], x) # "Less"
         THEN Append(insert_sorted_unstable(SubSeq(s, 1, Len(s) - 1), x), s[Len(s)])
         ELSE Append(s, x)

\* x put into the sorted sequence s after every element that is not Greater
RECURSIVE insert_sorted(_, _)
insert_sorted(s, x) ==
    IF s = <<>> THEN <<x>>
    ELSE IF compare(s[Len(s)], x) = "Greater"
         THEN Append(insert_sorted(SubSeq(s, 1, Len(s) - 1), x), s[Len(s)])
         ELSE Append(s, x)

RECURSIVE sort_from(_, _, _)
sort_from(s, i, acc) ==
    IF i > Len(s) THEN acc ELSE sort_from(s, i + 1, insert_sorted(acc, s[i]))

\* slice::sort_by(compare): the stable sort
sort_by(s) == sort_from(s, 1, <<>>)

\* Vec::retain with the threshold closure
RECURSIVE retain(_, _, _)
retain(s, word_threshold, label_threshold) ==
    IF s = <<>> THEN <<>>
    ELSE LET keep == IF Head(s).entry_type = "Word"
                     THEN Head(s).count >= word_threshold
                     ELSE Head(s).count >= label_threshold
             rest == retain(Tail(s), word_threshold, label_threshold)
         IN  IF keep THEN <<Head(s)>> \o rest ELSE rest

(***************************************************************************)
(* vocabulary.rs: the state of one Vocabulary.                             *)
(***************************************************************************)
VARIABLES
    words,          \* Vec<WordEntry>; words[i + 1] is the entry with id i
    word_to_index,  \* [0..vocab_size-1 -> entry id or -1]
    vocab_size,
    n_tokens,
    n_words,
    n_labels,
    size,
    min_n,
    max_n,
    bucket,
    status,         \* "running", "panicked" (a panic!) or "hung" (the probe loop spins)
    add_calls,      \* history: calls of add entered so far
    last_op         \* history: the last call and what it returned

vars == <<words, word_to_index, vocab_size, n_tokens, n_words, n_labels, size,
          min_n, max_n, bucket, status, add_calls, last_op>>

config == <<vocab_size, min_n, max_n, bucket>>

\* the empty marker of word_to_index
EMPTY == -1

\* hash_lookup's result when its loop never returns
LOOPS == -2

Slots == 0 .. (vocab_size - 1)

Op(name, word, a, b, ret) ==
    [op |-> name, word |-> word, a |-> a, b |-> b, ret |-> ret]

\* the texts of the entries
Texts == {words[i].word : i \in 1..Len(words)}

\* Vocabulary::new
Init ==
    /\ \E c \in Configs :
          /\ vocab_size = c[1]
          /\ min_n = c[2]
          /\ max_n = c[3]
          /\ bucket = c[4]
          /\ word_to_index = [s \in 0 .. (c[1] - 1) |-> EMPTY]
    /\ words = <<>>
    /\ n_tokens = 0
    /\ n_words = 0
    /\ n_labels = 0
    /\ size = 0
    /\ status = "running"
    /\ add_calls = 0
    /\ last_op = Op("new", <<>>, 0, 0, 0)

\* next_slot with a stride of two: a probe that is not linear
next_slot_double(word_hash, n) == (word_hash + 2) % n

\* the probe step of hash_lookup's loop
next_slot(word_hash, n) == (word_hash + 1) % n

\* probe with the text comparison lost: it runs on to the first empty slot
RECURSIVE probe_nomatch(_, _, _, _, _)
probe_nomatch(ws, w2i, word, word_hash, visited) ==
    LET n == Cardinality(DOMAIN w2i)
    IN  IF w2i[word_hash] = EMPTY THEN word_hash
        ELSE IF visited + 1 >= n THEN LOOPS
        ELSE probe_nomatch(ws, w2i, word, (word_hash + 1) % n, visited + 1)

\* hash_lookup's loop over the table w2i of entries ws, from slot word_hash.
\* After visiting every slot without returning, the loop is back at its first
\* slot with nothing changed: it never returns (LOOPS).
RECURSIVE probe(_, _, _, _, _)
probe(ws, w2i, word, word_hash, visited) ==
    LET word_index == w2i[word_hash]
        n == Cardinality(DOMAIN w2i)
    IN  IF word_index = EMPTY THEN word_hash
        ELSE IF word = ws[word_index + 1].word THEN word_hash
        ELSE IF visited + 1 >= n THEN LOOPS
        ELSE probe(ws, w2i, word, next_slot(word_hash, n), visited + 1)

\* fnv_hash of each input token, computed once
token_hash == [t \in Tokens |-> fnv_hash(t)]

\* the slot hash_lookup starts from: fnv_hash(&word) as usize % self.vocab_size
home_slot(word, n) == u32_mod(token_hash[word], n)

lookup_in(ws, w2i, word) ==
    probe(ws, w2i, word, home_slot(word, Cardinality(DOMAIN w2i)), 0)

\* Vocabulary::hash_lookup
hash_lookup(word) == lookup_in(words, word_to_index, word)

\* Vocabulary::get_id as a function of the state (LOOPS when it never returns)
get_id(word) ==
    LET hash == hash_lookup(word)
    IN  IF hash = LOOPS THEN LOOPS ELSE word_to_index[hash]

\* the call vocab.get_id(word)
GetId(word) ==
    /\ status = "running"
    /\ \E id \in {get_id(word)} :
           /\ status' = IF id = LOOPS THEN "hung" ELSE "running"
           /\ last_op' = Op("get_id", word, 0, 0, id)
    /\ UNCHANGED <<words, word_to_index, vocab_size, n_tokens, n_words, n_labels,
                   size, min_n, max_n, bucket, add_calls>>

\* set_slot with the store forgotten
set_slot_lost(w2i, hash, id) == w2i

\* self.word_to_index[hash] = self.size as i32
set_slot(w2i, hash, id) == [w2i EXCEPT ![hash] = id]

\* count_token with self.size taken for self.n_tokens
count_token_as_size == n_tokens' = size + 1

\* self.n_tokens += 1
count_token == n_tokens' = n_tokens + 1

\* add_new putting the new entry first (words.insert(0, ..)) instead of last
add_new_front(word, hash) ==
    LET e == WordEntry_new(word, label_prefix)
    IN  IF e.entry_type = "Word"
        THEN \E c \in {compute_subwords(word, min_n, max_n, bucket)} :
               IF c.panic
               THEN /\ status' = "panicked"
                    /\ UNCHANGED <<words, word_to_index, size>>
               ELSE /\ status' = "running"
                    /\ words' = <<[e EXCEPT !.subwords = c.subwords]>> \o words
                    /\ word_to_index' = set_slot(word_to_index, hash, size)
                    /\ size' = size + 1
        ELSE /\ status' = "running"
             /\ words' = <<e>> \o words
             /\ word_to_index' = set_slot(word_to_index, hash, size)
             /\ size' = size + 1

\* the -1 arm of add: a new entry is built, pushed and indexed
add_new(word, hash) ==
    LET e == WordEntry_new(word, label_prefix)
    IN  IF e.entry_type = "Word"
        THEN \E c \in {compute_subwords(word, min_n, max_n, bucket)} :
               IF c.panic
               THEN /\ status' = "panicked"
                    /\ UNCHANGED <<words, word_to_index, size>>
               ELSE /\ status' = "running"
                    /\ words' = Append(words, [e EXCEPT !.subwords = c.subwords])
                    /\ word_to_index' = set_slot(word_to_index, hash, size)
                    /\ size' = size + 1
        ELSE /\ status' = "running"
             /\ words' = Append(words, e)
             /\ word_to_index' = set_slot(word_to_index, hash, size)
             /\ size' = size + 1

\* add_existing counting the occurrence twice
add_existing_double(index) ==
    /\ status' = "running"
    /\ words' = [words EXCEPT ![index + 1].count = @ + 2]
    /\ UNCHANGED <<word_to_index, size>>

\* the other arm of add: the entry's count goes up
add_existing(index) ==
    /\ status' = "running"
    /\ words' = [words EXCEPT ![index + 1].count = @ + 1]
    /\ UNCHANGED <<word_to_index, size>>

\* Vocabulary::add.  last_op.a of an add is 1 when the call before it was a
\* threshold that dropped word.
add(word) ==
    /\ status = "running"
    /\ add_calls < MaxAdds
    /\ add_calls' = add_calls + 1
    /\ last_op' = Op("add", word,
                    IF last_op.op = "threshold" /\ word \in last_op.ret THEN 1 ELSE 0,
                    0, 0)
    /\ UNCHANGED <<vocab_size, min_n, max_n, bucket, n_words, n_labels>>
    /\ \E hash \in {hash_lookup(word)} :
           IF hash = LOOPS
           THEN /\ status' = "hung"
                /\ UNCHANGED <<words, word_to_index, n_tokens, size>>
           ELSE /\ count_token
                /\ IF word_to_index[hash] = EMPTY
                   THEN add_new(word, hash)
                   ELSE add_existing(word_to_index[hash])

\* tally with the Label arm forgotten
tally_words_only(entry, t) == IF t = "Word" /\ entry.entry_type = t THEN 1 ELSE 0

\* the match arms of the re-hydrate loop: 1 when entry counts as type t
tally(entry, t) == IF entry.entry_type = t THEN 1 ELSE 0

\* rehydrate with self.size += 1 forgotten: every slot gets id 0
RECURSIVE rehydrate_no_increment(_, _, _)
rehydrate_no_increment(ws, i, acc) ==
    IF i > Len(ws) \/ acc.hung THEN acc
    ELSE LET hash == lookup_in(ws, acc.word_to_index, ws[i].word)
         IN  IF hash = LOOPS THEN [acc EXCEPT !.hung = TRUE]
             ELSE rehydrate_no_increment(ws, i + 1,
                    [word_to_index |-> set_slot(acc.word_to_index, hash, acc.size),
                     size |-> acc.size,
                     n_words |-> acc.n_words + tally(ws[i], "Word"),
                     n_labels |-> acc.n_labels + tally(ws[i], "Label"),
                     hung |-> FALSE])

\* the re-hydrate loop of threshold over ws, from entry i (1-based)
RECURSIVE rehydrate(_, _, _)
rehydrate(ws, i, acc) ==
    IF i > Len(ws) \/ acc.hung THEN acc
    ELSE LET hash == lookup_in(ws, acc.word_to_index, ws[i].word)
         IN  IF hash = LOOPS THEN [acc EXCEPT !.hung = TRUE]
             ELSE rehydrate(ws, i + 1,
                    [word_to_index |-> set_slot(acc.word_to_index, hash, acc.size),
                     size |-> acc.size + 1,
                     n_words |-> acc.n_words + tally(ws[i], "Word"),
                     n_labels |-> acc.n_labels + tally(ws[i], "Label"),
                     hung |-> FALSE])

\* Vocabulary::threshold
threshold(word_threshold, label_threshold) ==
    /\ status = "running"
    /\ \E kept \in {retain(sort_by(words), word_threshold, label_threshold)} :
       \E r \in {rehydrate(kept, 1,
                    [word_to_index |-> [s \in Slots |-> EMPTY], size |-> 0,
                     n_words |-> 0, n_labels |-> 0, hung |-> FALSE])} :
           /\ words' = kept
           /\ word_to_index' = r.word_to_index
           /\ size' = r.size
           /\ n_words' = r.n_words
           /\ n_labels' = r.n_labels
           /\ status' = IF r.hung THEN "hung" ELSE "running"
           /\ last_op' = Op("threshold", <<>>, word_threshold, label_threshold,
                           Texts \ {kept[j].word : j \in 1..Len(kept)})
    /\ UNCHANGED <<vocab_size, n_tokens, min_n, max_n, bucket, add_calls>>

Next ==
    \/ \E word \in Tokens : add(word)
    \/ \E word \in Tokens : GetId(word)
    \/ \E wt \in 0..MaxThreshold, lt \in 0..MaxThreshold : threshold(wt, lt)

Spec == Init /\ [][Next]_vars

(***************************************************************************)
(* word.rs on its own: the functions called on fresh entries, as its unit  *)
(* tests call them.  last_op records each call and what it came to.        *)
(***************************************************************************)
\* subword widths range over 0..MaxN
MaxN == 3

\* "" and three more strings with the two-byte character U+00E9 (195, 169)
T_empty == <<>>

T_eacute == <<195, 169>>

T_eacute_a == <<195, 169, 97>>

T_h_eacute_eacute == <<104, 195, 169, 195, 169>>

WordTokens == {T_empty, T_rust, T_foo, T_biff, T_label_baz, T_a_eacute,
               T_eacute, T_eacute_a, T_h_eacute_eacute}

Buckets == {7, 10}

\* an idle Vocabulary carrying the subword parameters of the calls
WordInit ==
    /\ min_n \in 0..MaxN
    /\ max_n \in 0..MaxN
    /\ bucket \in Buckets
    /\ vocab_size = 1
    /\ word_to_index = [s \in {0} |-> EMPTY]
    /\ words = <<>>
    /\ n_tokens = 0
    /\ n_words = 0
    /\ n_labels = 0
    /\ size = 0
    /\ status = "running"
    /\ add_calls = 0
    /\ last_op = Op("new", <<>>, 0, 0, 0)

\* the call of f on a fresh entry for word came to ret
Called(f, word, ret) ==
    /\ last_op' = Op(f, word, min_n, max_n, ret)
    /\ UNCHANGED <<words, word_to_index, vocab_size, n_tokens, n_words, n_labels,
                   size, min_n, max_n, bucket, status, add_calls>>

ParseSubwords(word) ==
    Called("parse_subwords", word, parse_subwords(word, min_n, max_n))

ComputeSubwords(word) ==
    Called("compute_subwords", word, compute_subwords(word, min_n, max_n, bucket))

FnvHash(word) == Called("fnv_hash", word, fnv_hash(word))

WordNext ==
    \/ \E word \in WordTokens : ParseSubwords(word)
    \/ \E word \in WordTokens : ComputeSubwords(word)
    \/ \E word \in WordTokens : FnvHash(word)

WordSpec == WordInit /\ [][WordNext]_vars

(***************************************************************************)
(* Notions the properties share.                                           *)
(***************************************************************************)
Occupied == {s \in Slots : word_to_index[s] # EMPTY}

Ids == 0 .. (Len(words) - 1)

\* the slot k linear steps (with wrap-around) after the home slot of word
linear_slot(word, k) == (home_slot(word, vocab_size) + k) % vocab_size

\* a step taken by a call of add / of threshold
AddStep == add_calls' = add_calls + 1

ThresholdStep == last_op'.op = "threshold"

(***************************************************************************)
(* C1: word_count + label_count == live_size in every state reached by add *)
(* and prune calls (n_words + n_labels = size).                            *)
(***************************************************************************)
C1_CountersSumToSize == n_words + n_labels = size

(***************************************************************************)
(* C2: live_size equals the number of non-empty slots of slot_to_entry and *)
(* the length of the entries list, in every reachable state.               *)
(***************************************************************************)
C2_SizeSlotsEntries ==
    /\ size = Cardinality(Occupied)
    /\ size = Len(words)

\* a prune that dropped or merged something, with entries left in the table
C2_Witness ==
    /\ last_op.op = "threshold"
    /\ size = 2
    /\ n_tokens = 4
    /\ Cardinality(Occupied) = 2

(***************************************************************************)
(* C3: for every position i of entries, linear probing from                *)
(* hash(entries[i].text) mod capacity reaches the slot that stores i       *)
(* without crossing an empty slot; hash_lookup returns that slot and       *)
(* get_id returns i.                                                       *)
(***************************************************************************)
C3_ProbeReachesEntry ==
    \A i \in 1..Len(words) :
        \E k \in 0 .. (vocab_size - 1) :
            /\ word_to_index[linear_slot(words[i].word, k)] = i - 1
            /\ \A j \in 0 .. (k - 1) :
                   word_to_index[linear_slot(words[i].word, j)] # EMPTY
            /\ hash_lookup(words[i].word) = linear_slot(words[i].word, k)
            /\ get_id(words[i].word) = i - 1

\* an entry stored past the end of the table: its probe wrapped around
C3_Witness ==
    \E i \in 1..Len(words) :
        /\ word_to_index[hash_lookup(words[i].word)] = i - 1
        /\ hash_lookup(words[i].word) < home_slot(words[i].word, vocab_size)

(***************************************************************************)
(* C4: no two entries have the same text, and every occupied slot holds a  *)
(* distinct valid index in 0..entries.len()-1; each entry is referenced by *)
(* exactly one slot.                                                       *)
(***************************************************************************)
C4_DistinctTextsAndIndices ==
    /\ \A i, j \in 1..Len(words) : words[i].word = words[j].word => i = j
    /\ \A s \in Occupied : word_to_index[s] \in Ids
    /\ \A s, t \in Occupied : word_to_index[s] = word_to_index[t] => s = t
    /\ \A i \in Ids : Cardinality({s \in Slots : word_to_index[s] = i}) = 1

\* a token was added again while other entries share the table
C4_Witness ==
    /\ last_op.op = "add"
    /\ Len(words) >= 2
    /\ \E i \in 1..Len(words) : words[i].word = last_op.word /\ words[i].count >= 2

(***************************************************************************)
(* C5: total_tokens equals the number of add calls made so far, new and    *)
(* repeated tokens alike; prune leaves it unchanged and it never           *)
(* decreases.  (A call of add that spins in hash_lookup has not ended:     *)
(* nothing comes after it.)                                                *)
(***************************************************************************)
C5_TotalTokens ==
    /\ [](status # "hung" => n_tokens = add_calls)
    /\ [][/\ n_tokens' >= n_tokens
          /\ ThresholdStep => n_tokens' = n_tokens]_vars

\* a prune has dropped entries after four adds, two of them of one token
C5_Witness ==
    /\ last_op.op = "threshold"
    /\ n_tokens = 4
    /\ add_calls = 4
    /\ Len(words) = 1
    /\ words[1].count = 2


(***************************************************************************)
(* C6: add of a token not present in a non-full table appends one entry    *)
(* with count 1, gives it the id equal to the previous live_size, stores   *)
(* that id in the first empty slot found by linear probing (with           *)
(* wrap-around) from hash(text) mod capacity, and increases live_size by 1 *)
(* and total_tokens by 1.                                                  *)
(***************************************************************************)
\* the first empty slot on the linear probe sequence of word
first_empty_linear(word) ==
    linear_slot(word,
        CHOOSE k \in 0 .. (vocab_size - 1) :
            /\ word_to_index[linear_slot(word, k)] = EMPTY
            /\ \A j \in 0 .. (k - 1) : word_to_index[linear_slot(word, j)] # EMPTY)

C6_AddNewAppends ==
    [][\A w \in Tokens :
        (AddStep /\ last_op'.word = w /\ w \notin Texts /\ Occupied # Slots)
        => /\ Len(words') = Len(words) + 1
           /\ SubSeq(words', 1, Len(words)) = words
           /\ words'[Len(words')].word = w
           /\ words'[Len(words')].count = 1
           /\ word_to_index'[first_empty_linear(w)] = size
           /\ \A s \in Slots \ {first_empty_linear(w)} :
                  word_to_index'[s] = word_to_index[s]
           /\ size' = size + 1
           /\ n_tokens' = n_tokens + 1]_vars

(***************************************************************************)
(* C7: add of a token already present increments that entry's count by     *)
(* exactly 1 and total_tokens by 1 and changes nothing else: live_size,    *)
(* word_count, label_count, slot_to_entry, the length and order of         *)
(* entries, every other entry's count, and every entry's text, kind and    *)
(* subword_hashes are unchanged.                                           *)
(***************************************************************************)
C7_AddExistingOnlyCounts ==
    [][\A w \in Tokens :
        (AddStep /\ last_op'.word = w /\ w \in Texts)
        => /\ Len(words') = Len(words)
           /\ \A i \in 1..Len(words) :
                 /\ words'[i].word = words[i].word
                 /\ words'[i].entry_type = words[i].entry_type
                 /\ words'[i].subwords = words[i].subwords
                 /\ words'[i].count =
                        IF words[i].word = w THEN words[i].count + 1
                                             ELSE words[i].count
           /\ n_tokens' = n_tokens + 1
           /\ UNCHANGED <<size, n_words, n_labels, word_to_index>>]_vars

\* the third add of one token, with another entry beside it
C7_Witness ==
    /\ last_op.op = "add"
    /\ status = "running"
    /\ Len(words) = 2
    /\ \E i \in 1..Len(words) : words[i].word = last_op.word /\ words[i].count = 3

(***************************************************************************)
(* C8: in every reachable state, lookup_id on a token that is not in the   *)
(* vocabulary returns the explicit absent result (the empty sentinel) as a *)
(* normal outcome, and lookup_id never modifies entries, slot_to_entry or  *)
(* any counter.                                                            *)
(***************************************************************************)
C8_AbsentLookupReturnsEmpty ==
    [][(last_op'.op = "get_id" /\ last_op'.word \notin Texts)
        => /\ last_op'.ret = EMPTY
           /\ status' = "running"
           /\ UNCHANGED <<words, word_to_index, n_tokens, n_words, n_labels,
                          size>>]_vars

(***************************************************************************)
(* C9: after prune(word_threshold, label_threshold) the entries list       *)
(* contains exactly the prior Word entries with count >= word_threshold    *)
(* and the prior Label entries with count >= label_threshold, with every   *)
(* Word entry before every Label entry and counts non-increasing within    *)
(* each class.                                                             *)
(***************************************************************************)
\* whether entry e passes the thresholds wt (Word) and lt (Label)
passes(e, wt, lt) ==
    IF e.entry_type = "Word" THEN e.count >= wt ELSE e.count >= lt

C9_PruneFiltersAndOrders ==
    [][ThresholdStep
        => /\ {words'[i] : i \in 1..Len(words')}
                = {e \in {words[i] : i \in 1..Len(words)} :
                       passes(e, last_op'.a, last_op'.b)}
           /\ Len(words') = Cardinality({i \in 1..Len(words) :
                                passes(words[i], last_op'.a, last_op'.b)})
           /\ \A i, j \in 1..Len(words') :
                 i < j
                 => /\ ~(words'[i].entry_type = "Label" /\ words'[j].entry_type = "Word")
                    /\ (words'[i].entry_type = words'[j].entry_type
                          => words'[i].count >= words'[j].count)]_vars

\* a prune that dropped an entry and kept two Words of different counts
C9_Witness ==
    /\ last_op.op = "threshold"
    /\ n_tokens = 4
    /\ Len(words) = 2
    /\ words[1].entry_type = "Word" /\ words[1].count = 2
    /\ words[2].entry_type = "Word" /\ words[2].count = 1

(***************************************************************************)
(* C10: prune(0, 0) applied in any reachable state drops no entry: the set *)
(* of entry texts with their counts is the same before and after, the      *)
(* number of entries is unchanged, and afterwards                          *)
(* word_count + label_count == live_size == number of entries.             *)
(***************************************************************************)
C10_PruneZeroDropsNothing ==
    [][(ThresholdStep /\ last_op'.a = 0 /\ last_op'.b = 0)
        => /\ {<<words'[i].word, words'[i].count>> : i \in 1..Len(words')}
                = {<<words[i].word, words[i].count>> : i \in 1..Len(words)}
           /\ Len(words') = Len(words)
           /\ n_words' + n_labels' = size'
           /\ size' = Len(words')]_vars

\* prune(0, 0) over two Words and a Label, one of them added twice
C10_Witness ==
    /\ last_op.op = "threshold"
    /\ last_op.a = 0 /\ last_op.b = 0
    /\ Len(words) = 3
    /\ n_words = 2 /\ n_labels = 1
    /\ n_tokens = 4

(***************************************************************************)
(* C11: for every valid UTF-8 Word token (ASCII or multi-byte) and every   *)
(* 0 < min_n < max_n, subword extraction completes without failure and     *)
(* yields, for each width w from min_n to max_n in increasing order and    *)
(* each byte offset i in increasing order that is not a continuation byte  *)
(* and has i + w <= byte length, the w-byte window starting at i, with     *)
(* duplicates retained and in that order.                                  *)
(***************************************************************************)
\* the windows of word from the k-th pair (width, offset) on, the pairs
\* counted width by width from lo, offset by offset from 0
RECURSIVE expected_from(_, _, _, _)
expected_from(word, lo, hi, k) ==
    IF Len(word) = 0 \/ k >= (hi - lo + 1) * Len(word) THEN <<>>
    ELSE LET w == lo + (k \div Len(word))
             i == k % Len(word)
         IN  IF (word[i + 1] \div 64) # 2 /\ i + w <= Len(word)
             THEN <<SubSeq(word, i + 1, i + w)>> \o expected_from(word, lo, hi, k + 1)
             ELSE expected_from(word, lo, hi, k + 1)

C11_SubwordsOfEveryToken ==
    (last_op.op = "parse_subwords" /\ 0 < last_op.a /\ last_op.a < last_op.b)
    => /\ ~last_op.ret.panic
       /\ last_op.ret.subwords = expected_from(last_op.word, last_op.a, last_op.b, 0)

(***************************************************************************)
(* C12: subword construction for a Word entry is a fatal configuration     *)
(* error exactly when min_n and max_n are both nonzero and min_n >= max_n  *)
(* (including min_n == max_n); when min_n == 0 or max_n == 0 no error is   *)
(* raised and the subword list is empty regardless of the token and of the *)
(* other bound.                                                            *)
(***************************************************************************)
C12_ConfigurationError ==
    last_op.op \in {"parse_subwords", "compute_subwords"}
    => /\ (last_op.ret.panic /\ last_op.ret.cause = "invalid subword parameters")
              <=> (last_op.a # 0 /\ last_op.b # 0 /\ last_op.a >= last_op.b)
       /\ (last_op.a = 0 \/ last_op.b = 0)
              => (~last_op.ret.panic /\ last_op.ret.subwords = <<>>)

\* min_n == max_n == 2 on "rust": the configuration error
C12_Witness ==
    /\ last_op.op = "parse_subwords"
    /\ last_op.word = T_rust
    /\ last_op.a = 2
    /\ last_op.b = 2
    /\ last_op.ret.panic
    /\ last_op.ret.cause = "invalid subword parameters"

(***************************************************************************)
(* C13: hash(bytes) is 32-bit FNV-1a: starting from 2166136261, for each   *)
(* byte in order the accumulator is XORed with the byte and then           *)
(* multiplied by 16777619 modulo 2^32; hash("rust") == 490716647, and each *)
(* subword bucket id is hash(candidate) mod bucket_count in candidate      *)
(* order ("rust", 2, 3, bucket_count 10 gives [0,9,2,7,7]).                *)
(***************************************************************************)
\* FNV-1a on four little-endian bytes x = <<x0, x1, x2, x3>>, by long
\* multiplication: 16777619 * x = 403 * x + 2^24 * x
fnv1a_xor(a, b) ==
    LET bit(k) == 2 ^ k
        odd(n) == n % 2
        bits == {k \in 0..7 : odd((a \div bit(k)) + (b \div bit(k))) = 1}
        RECURSIVE total(_)
        total(S) == IF S = {} THEN 0
                    ELSE LET k == CHOOSE k \in S : TRUE
                         IN  bit(k) + total(S \ {k})
    IN  total(bits)

fnv1a_step(x, byte) ==
    LET y0 == fnv1a_xor(x[1], byte)
        c0 == 403 * y0
        c1 == (403 * x[2]) + (c0 \div 256)
        c2 == (403 * x[3]) + (c1 \div 256)
        c3 == (403 * x[4]) + (c2 \div 256) + y0
    IN  <<c0 % 256, c1 % 256, c2 % 256, c3 % 256>>

RECURSIVE fnv1a_bytes(_)
\* 2166136261 = 0x81 1C 9D C5
fnv1a_bytes(word) ==
    IF word = <<>> THEN <<197, 157, 28, 129>>
    ELSE fnv1a_step(fnv1a_bytes(SubSeq(word, 1, Len(word) - 1)), word[Len(word)])

\* the same value as <<high 16 bits, low 16 bits>>
fnv1a(word) ==
    LET x == fnv1a_bytes(word)
    IN  <<(x[4] * 256) + x[3], (x[2] * 256) + x[1]>>

\* x mod n from the four bytes
fnv1a_mod(word, n) ==
    LET x == fnv1a_bytes(word)
    IN  ((((((x[4] % n) * 256 + x[3]) % n) * 256 + x[2]) % n) * 256 + x[1]) % n

C13_HashIsFnv1a ==
    /\ last_op.op = "fnv_hash"
         => /\ last_op.ret = fnv1a(last_op.word)
            /\ last_op.word = T_rust
                 => last_op.ret = <<490716647 \div 65536, 490716647 % 65536>>
    /\ (last_op.op = "compute_subwords" /\ 0 < last_op.a /\ last_op.a < last_op.b
            /\ ~last_op.ret.panic)
         => LET candidates == expected_from(last_op.word, last_op.a, last_op.b, 0)
            IN  /\ last_op.ret.subwords =
                       [k \in 1..Len(candidates) |-> fnv1a_mod(candidates[k], bucket)]
                /\ (last_op.word = T_rust /\ last_op.a = 2 /\ last_op.b = 3 /\ bucket = 10)
                     => last_op.ret.subwords = <<0, 9, 2, 7, 7>>

\* compute_subwords(2, 3, 10) on "rust" gave the five buckets
C13_Witness ==
    /\ last_op.op = "compute_subwords"
    /\ last_op.word = T_rust
    /\ last_op.a = 2
    /\ last_op.b = 3
    /\ bucket = 10
    /\ ~last_op.ret.panic
    /\ Len(last_op.ret.subwords) = 5

(***************************************************************************)
(* C14: in every reachable state every entry's kind is Label if and only   *)
(* if its text starts with label_prefix ("__label__"), and every Label     *)
(* entry has an empty subword_hashes list; an entry's kind, text and       *)
(* subword_hashes never change after creation under any later add or       *)
(* prune.                                                                  *)
(***************************************************************************)
\* text begins with the bytes of "__label__"
has_label_prefix(text) ==
    /\ Len(text) >= Len(label_prefix)
    /\ \A k \in 1..Len(label_prefix) : text[k] = label_prefix[k]

C14_KindFollowsPrefix ==
    /\ [](\A i \in 1..Len(words) :
            /\ (words[i].entry_type = "Label") <=> has_label_prefix(words[i].word)
            /\ (words[i].entry_type = "Label") => (words[i].subwords = <<>>))
    /\ [][\A i \in 1..Len(words) : \A j \in 1..Len(words') :
            (words'[j].word = words[i].word)
            => /\ words'[j].entry_type = words[i].entry_type
               /\ words'[j].subwords = words[i].subwords]_vars

\* after a prune, a Label beside a Word that carries subword buckets
C14_Witness ==
    /\ last_op.op = "threshold"
    /\ n_tokens >= 3
    /\ \E i \in 1..Len(words) : words[i].entry_type = "Label"
    /\ \E i \in 1..Len(words) :
          words[i].entry_type = "Word" /\ words[i].subwords # <<>>

(***************************************************************************)
(* C15: slot_for (and therefore add and lookup_id) terminates within at    *)
(* most capacity probe steps whenever the table has at least one empty     *)
(* slot or contains the queried text; when every slot is occupied and the  *)
(* queried text is absent the probe loop never terminates and no           *)
(* table-full error is raised; and add cannot fail while capacity exceeds  *)
(* the number of distinct tokens inserted.                                 *)
(***************************************************************************)
\* the probe of word ends at its k-th linear slot: empty, or holding word
ends_at(word, k) ==
    LET id == word_to_index[linear_slot(word, k)]
    IN  id = EMPTY \/ words[id + 1].word = word

C15_ProbeTerminationAndAdd ==
    /\ [](\A w \in Tokens :
            /\ (Occupied # Slots \/ w \in Texts)
                 => \E k \in 0 .. (vocab_size - 1) :
                       /\ ends_at(w, k)
                       /\ \A j \in 0 .. (k - 1) : ~ends_at(w, j)
                       /\ hash_lookup(w) = linear_slot(w, k)
            /\ (Occupied = Slots /\ w \notin Texts)
                 => (hash_lookup(w) = LOOPS /\ get_id(w) = LOOPS))
    /\ [][\A w \in Tokens :
            (AddStep /\ last_op'.word = w /\ Cardinality(Texts \cup {w}) < vocab_size)
            => status' = "running"]_vars

(***************************************************************************)
(* C16: between two prune calls ids are stable: an add (of a new or an     *)
(* existing token) never changes the id returned by lookup_id for any      *)
(* token that was already present, and never moves or removes an existing  *)
(* entry; only prune may renumber or remove entries.                       *)
(***************************************************************************)
C16_IdsStableUnderAdd ==
    [][~ThresholdStep
        => /\ Len(words') >= Len(words)
           /\ \A i \in 1..Len(words) :
                 /\ words'[i].word = words[i].word
                 /\ get_id(words[i].word)' = i - 1
                 /\ get_id(words[i].word) = i - 1]_vars

\* a new token was added behind two others, after a collision
C16_Witness ==
    /\ last_op.op = "add"
    /\ status = "running"
    /\ Len(words) >= 3
    /\ words[Len(words)].word = last_op.word
    /\ hash_lookup(last_op.word) # home_slot(last_op.word, vocab_size)

(***************************************************************************)
(* C17: prune rebuilds the table from the filtered, sorted list:           *)
(* afterwards each retained entry's id is its position in the post-sort    *)
(* list, its text, kind, count and subword_hashes are exactly those it had *)
(* before the prune, live_size / word_count / label_count equal the        *)
(* numbers of retained entries / Words / Labels, and lookup_id of every    *)
(* dropped token returns absent.                                           *)
(***************************************************************************)
C17_PruneRebuildsTable ==
    [][ThresholdStep
        => /\ \A j \in 1..Len(words') :
                 /\ \A w \in Tokens : (words'[j].word = w) => (get_id(w)' = j - 1)
                 /\ \E i \in 1..Len(words) : words'[j] = words[i]
           /\ size' = Len(words')
           /\ n_words' = Cardinality({j \in 1..Len(words') :
                                         words'[j].entry_type = "Word"})
           /\ n_labels' = Cardinality({j \in 1..Len(words') :
                                          words'[j].entry_type = "Label"})
           /\ \A w \in Texts \ {words'[j].word : j \in 1..Len(words')} :
                 get_id(w)' = EMPTY]_vars

\* a prune kept a Word and a Label and dropped at least one entry
C17_Witness ==
    /\ last_op.op = "threshold"
    /\ n_tokens = 4
    /\ Len(words) = 2
    /\ words[1].entry_type = "Word"
    /\ words[2].entry_type = "Label"
    /\ words[1].count + words[2].count < 4

(***************************************************************************)
(* C18: as long as no prune has dropped an entry, the sum of count over    *)
(* all entries equals total_tokens; after any sequence of add and prune    *)
(* calls the sum of count over all entries is at most total_tokens, and    *)
(* every entry has count >= 1.  (The first part, step by step: a call      *)
(* that starts with the sum equal to n_tokens and is not a prune that      *)
(* drops an entry ends with the sum equal to n_tokens.)                    *)
(***************************************************************************)
RECURSIVE sum_counts(_)
sum_counts(ws) == IF ws = <<>> THEN 0 ELSE Head(ws).count + sum_counts(Tail(ws))

C18_CountsSumToTotalTokens ==
    /\ [](/\ sum_counts(words) <= n_tokens
          /\ \A i \in 1..Len(words) : words[i].count >= 1)
    /\ [][(/\ sum_counts(words) = n_tokens
           /\ ~(ThresholdStep /\ Len(words') < Len(words)))
          => sum_counts(words') = n_tokens']_vars

(***************************************************************************)
(* C19: prune is idempotent for fixed thresholds: calling prune(w, l) a    *)
(* second time immediately after prune(w, l) leaves entries (including     *)
(* the order of equal-count ties), slot_to_entry, live_size, word_count,   *)
(* label_count and total_tokens exactly as they were after the first call. *)
(* (In the state a threshold(w, l) has left, what threshold(w, l) would    *)
(* compute is the state itself; and a threshold step taken right after a   *)
(* threshold with the same arguments changes nothing.)                     *)
(***************************************************************************)
C19_PruneIdempotent ==
    /\ [](last_op.op = "threshold"
          => \E kept \in {retain(sort_by(words), last_op.a, last_op.b)} :
             \E r \in {rehydrate(kept, 1,
                          [word_to_index |-> [s \in Slots |-> EMPTY], size |-> 0,
                           n_words |-> 0, n_labels |-> 0, hung |-> FALSE])} :
                 /\ kept = words
                 /\ r.word_to_index = word_to_index
                 /\ r.size = size
                 /\ r.n_words = n_words
                 /\ r.n_labels = n_labels
                 /\ ~r.hung)
    /\ [][(/\ last_op.op = "threshold"
           /\ ThresholdStep
           /\ last_op'.a = last_op.a
           /\ last_op'.b = last_op.b)
          => /\ words' = words
             /\ word_to_index' = word_to_index
             /\ size' = size
             /\ n_words' = n_words
             /\ n_labels' = n_labels
             /\ n_tokens' = n_tokens
             /\ status' = "running"]_vars

\* a prune that dropped an entry and kept two Words of equal count, the
\* first of them with the greater home slot
C19_Witness ==
    /\ last_op.op = "threshold"
    /\ last_op.ret # {}
    /\ Len(words) = 2
    /\ words[1].entry_type = "Word"
    /\ words[2].entry_type = "Word"
    /\ words[1].count = words[2].count
    /\ home_slot(words[1].word, vocab_size) > home_slot(words[2].word, vocab_size)

====
